---- MODULE Spec2Model ----
(***************************************************************************)
(* ClusterExternalSecret controller                                        *)
(* (pkg/controllers/clusterexternalsecret/clusterexternalsecret_controller *)
(* .go): one Reconcile cycle of a parent ClusterExternalSecret against the *)
(* namespaces and the ExternalSecret children stored in the API server.    *)
(***************************************************************************)
EXTENDS Integers, Sequences, FiniteSets, TLC

\* ------------------------------------------------------------------ bounds
\* Writes made to the cluster by actors other than the controller.
MaxEnvSteps == 2
\* API calls that may fail over a whole run.
MaxFailures == 1
\* Parents in the collection that findObjectsForNamespace pages through.
MaxParents == 3
\* The page size of that enumeration (100 in the code), scaled to the collection.
PageLimit == 2
\* Cycles of each parent when two parents run side by side.
MaxCycles == 2

\* ------------------------------------------------------------- the cluster
\* Namespace names "ns1" < "ns2", written as their rank in lexicographic order.
Namespaces == {1, 2}
\* The one label key/value pair the selectors speak about.
Labels == {"env=prod"}
\* The reconciled parent. Children may also be owned by "ces2", another
\* ClusterExternalSecret, or by "other", an object of another kind.
Parents == {"ces1"}
\* Names a child can have: the parent's own name, or Spec.ExternalSecretName.
ChildNames == {"ces1", "es"}
Specs == {"s1", "s2"}
Metas == {[labels |-> "l1", annotations |-> "a1"], [labels |-> "l2", annotations |-> "a2"]}
\* metav1.LabelSelector values: matchLabels, and whether the selector converts.
Selectors ==
  { [valid |-> TRUE, matchLabels |-> {"env=prod"}],
    [valid |-> TRUE, matchLabels |-> {}],
    [valid |-> FALSE, matchLabels |-> {"env=prod"}] }
\* Spec.RefreshInterval: <<>> is nil, <<d>> is a duration d.
RefreshIntervals == {<<>>, <<30>>}
\* The owner-reference lists other actors give to a resource: none, a plain
\* owner, or another ClusterExternalSecret as controller. Nobody but the
\* controller names the reconciled parent as owner.
ExternalOwners ==
  { {},
    {[uid |-> "other", controller |-> FALSE]},
    {[uid |-> "ces2", controller |-> TRUE]} }

NoChild == [exists |-> FALSE]
Child(spec, meta, owners) ==
  [exists |-> TRUE, spec |-> spec, labels |-> meta.labels,
   annotations |-> meta.annotations, ownerReferences |-> owners]

\* ------------------------------------------------------------ error strings
errGetExistingES == "could not get existing ExternalSecret"
errCreatingOrUpdating == "could not create or update ExternalSecret"
errSetCtrlReference == "could not set the controller owner reference"
errSecretAlreadyExists == "external secret already exists in namespace"
errFailedToDelete == "external secret in non matching namespace could not be deleted"

VARIABLES
  nsLabels,    \* labels of every namespace
  children,    \* children[n][name]: the ExternalSecret name in namespace n
  ces,         \* ces[p]: the stored ClusterExternalSecret p
  lastCycle,   \* lastCycle[p]: what the last Reconcile of p saw and did
  streak,      \* consecutive fault-free cycles with no write in between (0..2)
  envBudget,   \* external writes left
  failBudget,  \* API failures left
  watch,       \* the namespace watch: the event at hand and the mapping of it
  conc         \* two parents at work in one namespace, an API call at a time

vars == <<nsLabels, children, ces, lastCycle, streak, envBudget, failBudget, watch, conc>>

\* ------------------------------------------------------------------ helpers
Range(s) == {s[i] : i \in DOMAIN s}

RECURSIVE SetToSeqs(_)
\* Every order in which a list call may return the elements of S.
SetToSeqs(S) ==
  IF S = {} THEN {<<>>}
  ELSE UNION {{<<x>> \o t : t \in SetToSeqs(S \ {x})} : x \in S}

RECURSIVE Insert(_, _)
Insert(sorted, x) ==
  IF sorted = <<>> THEN <<x>>
  ELSE IF x < Head(sorted) THEN <<x>> \o sorted
  ELSE <<Head(sorted)>> \o Insert(Tail(sorted), x)

\* sort.Strings left out: the list stays in the order it was built in.
SortStrings_Unsorted(s) == s

RECURSIVE SortStrings(_)
\* sort.Strings: ascending, duplicates kept.
SortStrings(s) ==
  IF s = <<>> THEN <<>> ELSE Insert(SortStrings(Tail(s)), Head(s))

\* ------------------------------------------- API calls and their failures
\* A fault point is an API call of a cycle that the environment may fail:
\* <<operation, namespace>>, namespace 0 for the cluster-scoped calls.
FaultPoints ==
  {<<"GetCES", 0>>, <<"ListNS", 0>>, <<"PatchStatus", 0>>}
    \cup ({"GetES", "Get", "Write", "Delete"} \X Namespaces)

AllFaultSets == {F \in SUBSET FaultPoints : Cardinality(F) <= MaxFailures}

FaultSets(budget) == {F \in AllFaultSets : Cardinality(F) <= budget}

\* Every order in which the namespace list may come back.
NamespaceOrders == SetToSeqs(Namespaces)

Call(op, n, ok) == [op |-> op, ns |-> n, ok |-> ok]

\* ------------------------------------------------ apimachinery / client-go
\* LabelSelectorAsSelector whose error is dropped.
LabelSelectorAsSelector_NeverFails(sel) ==
  [err |-> FALSE, matchLabels |-> sel.matchLabels]

\* metav1.LabelSelectorAsSelector: err is TRUE when the selector cannot be converted.
LabelSelectorAsSelector(sel) ==
  [err |-> ~sel.valid, matchLabels |-> sel.matchLabels]

\* labels.Selector.Matches: every required label is on the namespace.
Matches(selector, labelSet) == selector.matchLabels \subseteq labelSet

\* r.List with a label selector: the matching namespaces, in the order `order`
\* lists all namespaces.
ListNamespaces(order, selector) ==
  SelectSeq(order, LAMBDA n : Matches(selector, nsLabels[n]))

\* metav1.GetControllerOf: the owner references marked controller.
GetControllerOf(owners) == {o \in owners : o.controller}

\* controllerutil.SetControllerReference(owner, object): fails when the object
\* already has another controller, otherwise upserts the controller reference.
SetControllerReference(owner, owners) ==
  IF \E o \in GetControllerOf(owners) : o.uid # owner
    THEN [err |-> TRUE, owners |-> owners]
    ELSE [err |-> FALSE,
          owners |-> {o \in owners : o.uid # owner}
                       \cup {[uid |-> owner, controller |-> TRUE]}]

\* CreateOrUpdate that leaves an object it finds as it is.
CreateOrUpdate_CreateOnly(stored, desired, template, n, F) ==
  IF <<"Get", n>> \in F
    THEN [err |-> TRUE, child |-> stored, calls |-> {Call("Get", n, FALSE)}]
  ELSE IF stored.exists
    THEN [err |-> FALSE, child |-> stored, calls |-> {Call("Get", n, TRUE)}]
  ELSE IF <<"Write", n>> \in F
    THEN [err |-> TRUE, child |-> stored,
          calls |-> {Call("Get", n, TRUE), Call("Create", n, FALSE)}]
  ELSE [err |-> FALSE, child |-> [desired EXCEPT !.spec = template],
        calls |-> {Call("Get", n, TRUE), Call("Create", n, TRUE)}]

\* ctrl.CreateOrUpdate(ctx, client, &externalSecret, mutateFunc): Get the stored
\* object into `desired`; if absent, mutate and Create; if present, the stored
\* object replaces `desired`, mutateFunc sets its spec to `template`, and it is
\* written back with Update when that changed anything.
CreateOrUpdate(stored, desired, template, n, F) ==
  IF <<"Get", n>> \in F
    THEN [err |-> TRUE, child |-> stored, calls |-> {Call("Get", n, FALSE)}]
  ELSE IF ~stored.exists
    THEN IF <<"Write", n>> \in F
      THEN [err |-> TRUE, child |-> stored,
            calls |-> {Call("Get", n, TRUE), Call("Create", n, FALSE)}]
      ELSE [err |-> FALSE, child |-> [desired EXCEPT !.spec = template],
            calls |-> {Call("Get", n, TRUE), Call("Create", n, TRUE)}]
  ELSE LET mutated == [stored EXCEPT !.spec = template] IN
    IF mutated = stored
      THEN [err |-> FALSE, child |-> stored, calls |-> {Call("Get", n, TRUE)}]
    ELSE IF <<"Write", n>> \in F
      THEN [err |-> TRUE, child |-> stored,
            calls |-> {Call("Get", n, TRUE), Call("Update", n, FALSE)}]
      ELSE [err |-> FALSE, child |-> mutated,
            calls |-> {Call("Get", n, TRUE), Call("Update", n, TRUE)}]

\* ------------------------------------------------------------ the controller
\* The effective child name (Reconcile, esName).
EsName(obj) ==
  IF obj.spec.externalSecretName = "" THEN obj.name ELSE obj.spec.externalSecretName

\* The effective interval (Reconcile, refreshInt).
RequeueInterval == 300
\* refreshInt without the override by Spec.RefreshInterval.
RefreshInt_IgnoresOverride(obj) == RequeueInterval

RefreshInt(obj) ==
  IF obj.spec.refreshInterval # <<>> THEN obj.spec.refreshInterval[1] ELSE RequeueInterval

\* getExternalSecret: metadata-only Get of the child. err is "none", "notfound"
\* or "error"; the returned metadata is empty unless the Get succeeded.
getExternalSecret(ch, n, name, F) ==
  IF <<"GetES", n>> \in F
    THEN [err |-> "error", ownerReferences |-> {}, call |-> Call("GetES", n, FALSE)]
  ELSE IF ~ch[n][name].exists
    THEN [err |-> "notfound", ownerReferences |-> {}, call |-> Call("GetES", n, TRUE)]
  ELSE [err |-> "none", ownerReferences |-> ch[n][name].ownerReferences,
        call |-> Call("GetES", n, TRUE)]

\* checkForError without the "no one owns this resource" branch.
checkForError_IgnoreOwners(getError, existingES) ==
  IF getError # "none" /\ getError # "notfound" THEN errGetExistingES ELSE ""

checkForError(getError, existingES) ==
  IF getError # "none" /\ getError # "notfound" THEN errGetExistingES
  ELSE IF getError # "notfound" /\ existingES.ownerReferences = {}
    THEN errSecretAlreadyExists
  ELSE ""

\* resolveExternalSecret that drops the error of CreateOrUpdate.
resolveExternalSecret_SwallowsError(ch, obj, existingES, n, esName, esMetadata, F) ==
  IF SetControllerReference(obj.name, existingES.ownerReferences).err
    THEN [result |-> errSetCtrlReference, err |-> TRUE, children |-> ch, calls |-> {}]
  ELSE
    LET ref == SetControllerReference(obj.name, {})
        externalSecret == Child(obj.spec.externalSecretSpec, esMetadata, ref.owners)
        cou == CreateOrUpdate(ch[n][esName], externalSecret,
                              obj.spec.externalSecretSpec, n, F)
    IN [result |-> "", err |-> FALSE,
        children |-> [ch EXCEPT ![n][esName] = cou.child], calls |-> cou.calls]

resolveExternalSecret(ch, obj, existingES, n, esName, esMetadata, F) ==
  IF SetControllerReference(obj.name, existingES.ownerReferences).err
    THEN [result |-> errSetCtrlReference, err |-> TRUE, children |-> ch, calls |-> {}]
  ELSE
    LET ref == SetControllerReference(obj.name, {})
        externalSecret == Child(obj.spec.externalSecretSpec, esMetadata, ref.owners)
        cou == CreateOrUpdate(ch[n][esName], externalSecret,
                              obj.spec.externalSecretSpec, n, F)
    IN IF ref.err
         THEN [result |-> errSetCtrlReference, err |-> TRUE, children |-> ch, calls |-> {}]
       ELSE IF cou.err
         THEN [result |-> errCreatingOrUpdating, err |-> TRUE, children |-> ch,
               calls |-> cou.calls]
       ELSE [result |-> "", err |-> FALSE,
             children |-> [ch EXCEPT ![n][esName] = cou.child], calls |-> cou.calls]

removeExternalSecret(ch, esName, n, F) ==
  LET got == getExternalSecret(ch, n, esName, F)
      result == checkForError(got.err, got)
  IN IF got.err = "notfound"
       THEN [result |-> "", err |-> FALSE, children |-> ch, calls |-> {got.call}]
     ELSE IF result # ""
       THEN [result |-> result, err |-> got.err # "none", children |-> ch,
             calls |-> {got.call}]
     ELSE IF <<"Delete", n>> \in F
       THEN [result |-> errFailedToDelete, err |-> TRUE, children |-> ch,
             calls |-> {got.call, Call("Delete", n, FALSE)}]
     ELSE [result |-> "", err |-> FALSE,
           children |-> [ch EXCEPT ![n][esName] = NoChild],
           calls |-> {got.call, Call("Delete", n, TRUE)}]

\* getRemovedNamespaces with the membership test inverted.
getRemovedNamespaces_Kept(nsList, provisionedNs) ==
  SelectSeq(provisionedNs, LAMBDA ns : ns \in Range(nsList))

getRemovedNamespaces(nsList, provisionedNs) ==
  SelectSeq(provisionedNs, LAMBDA ns : ns \notin Range(nsList))

RECURSIVE removeLoop(_, _, _, _)
\* The loop of removeOldNamespaces over the removed namespaces; acc carries the
\* children, the failure map and the calls made so far.
removeLoop(removed, esName, F, acc) ==
  IF removed = <<>> THEN acc
  ELSE
    LET n == Head(removed)
        r == removeExternalSecret(acc.children, esName, n, F)
    IN removeLoop(Tail(removed), esName, F,
         [children |-> r.children,
          failed |-> IF r.result # "" THEN (n :> r.result) @@ acc.failed ELSE acc.failed,
          calls |-> acc.calls \cup r.calls])

\* removeOldNamespaces that returns an empty failure map.
removeOldNamespaces_NoFailures(ch, nsList, esName, provisionedNamespaces, F) ==
  [removeLoop(getRemovedNamespaces(nsList, provisionedNamespaces), esName, F,
              [children |-> ch, failed |-> <<>>, calls |-> {}])
     EXCEPT !.failed = <<>>]

removeOldNamespaces(ch, nsList, esName, provisionedNamespaces, F) ==
  removeLoop(getRemovedNamespaces(nsList, provisionedNamespaces), esName, F,
             [children |-> ch, failed |-> <<>>, calls |-> {}])

RECURSIVE InsertFailure(_, _)
InsertFailure(sorted, x) ==
  IF sorted = <<>> THEN <<x>>
  ELSE IF x.namespace < Head(sorted).namespace THEN <<x>> \o sorted
  ELSE <<Head(sorted)>> \o InsertFailure(Tail(sorted), x)

RECURSIVE SortFailures(_)
\* sort.Slice with the comparison namespaceFailures[i].Namespace < [j].Namespace.
SortFailures(s) ==
  IF s = <<>> THEN <<>> ELSE InsertFailure(SortFailures(Tail(s)), Head(s))

\* toNamespaceFailures that returns the entries in the order of the iteration.
toNamespaceFailures_Unsorted(failedNamespaces, iter) ==
  LET keys == SelectSeq(iter, LAMBDA n : n \in DOMAIN failedNamespaces)
  IN [i \in 1..Len(keys) |-> [namespace |-> keys[i], reason |-> failedNamespaces[keys[i]]]]

\* toNamespaceFailures: the entries of the failure map, taken in the order
\* `iter` in which the range loop visits the keys of the map, then sorted by
\* namespace.
toNamespaceFailures(failedNamespaces, iter) ==
  LET keys == SelectSeq(iter, LAMBDA n : n \in DOMAIN failedNamespaces)
  IN SortFailures([i \in 1..Len(keys) |->
                     [namespace |-> keys[i], reason |-> failedNamespaces[keys[i]]]])

\* The aggregate condition of a cycle.
NewClusterExternalSecretCondition(failedNamespaces, nsList) ==
  IF DOMAIN failedNamespaces = {}
    THEN [type |-> "Ready", status |-> "True", message |-> <<>>]
    ELSE [type |-> "Ready", status |-> "False",
          message |-> <<Cardinality(DOMAIN failedNamespaces), Len(nsList)>>]

\* The condition replaces the one the status held.
SetClusterExternalSecretCondition(status, condition) ==
  [status EXCEPT !.conditions = <<condition>>]

RECURSIVE matchLoop_StopsAtFailure(_, _, _, _)
\* The loop of Reconcile with `break` in place of `continue`.
matchLoop_StopsAtFailure(items, obj, F, acc) ==
  IF items = <<>> THEN acc
  ELSE
    LET n == Head(items)
        esName == EsName(obj)
        existingES == getExternalSecret(acc.children, n, esName, F)
        result == checkForError(existingES.err, existingES)
        res == resolveExternalSecret(acc.children, obj, existingES, n, esName,
                                     obj.spec.externalSecretMetadata, F)
    IN IF result # ""
         THEN [acc EXCEPT !.failed = (n :> result) @@ acc.failed,
                          !.calls = acc.calls \cup {existingES.call}]
       ELSE IF res.err
         THEN [acc EXCEPT !.failed = (n :> res.result) @@ acc.failed,
                          !.calls = acc.calls \cup {existingES.call} \cup res.calls]
       ELSE matchLoop_StopsAtFailure(Tail(items), obj, F,
              [acc EXCEPT !.children = res.children,
                          !.provisioned = Append(acc.provisioned, n),
                          !.calls = acc.calls \cup {existingES.call} \cup res.calls])

RECURSIVE matchLoop(_, _, _, _)
\* The loop of Reconcile over namespaceList.Items; acc carries the children, the
\* failure map, the provisioned list and the calls made so far.
matchLoop(items, obj, F, acc) ==
  IF items = <<>> THEN acc
  ELSE
    LET n == Head(items)
        esName == EsName(obj)
        existingES == getExternalSecret(acc.children, n, esName, F)
        result == checkForError(existingES.err, existingES)
        res == resolveExternalSecret(acc.children, obj, existingES, n, esName,
                                     obj.spec.externalSecretMetadata, F)
    IN matchLoop(Tail(items), obj, F,
         IF result # ""
           THEN [acc EXCEPT !.failed = (n :> result) @@ acc.failed,
                            !.calls = acc.calls \cup {existingES.call}]
         ELSE IF res.err
           THEN [acc EXCEPT !.failed = (n :> res.result) @@ acc.failed,
                            !.calls = acc.calls \cup {existingES.call} \cup res.calls]
         ELSE [acc EXCEPT !.children = res.children,
                          !.provisioned = Append(acc.provisioned, n),
                          !.calls = acc.calls \cup {existingES.call} \cup res.calls])

\* A patch that merges the provisionedNamespaces list into the stored one
\* instead of replacing it.
MergePatch_MergesLists(storedStatus, snapshotStatus, modifiedStatus) ==
  [f \in DOMAIN storedStatus |->
     IF modifiedStatus[f] = snapshotStatus[f] THEN storedStatus[f]
     ELSE IF f = "provisionedNamespaces"
       THEN storedStatus[f]
              \o SelectSeq(modifiedStatus[f], LAMBDA n : n \notin Range(storedStatus[f]))
     ELSE modifiedStatus[f]]

\* client.MergeFrom(snapshot) applied by Status().Patch: the status fields that
\* differ between the snapshot and the modified object overwrite the stored ones.
MergePatch(storedStatus, snapshotStatus, modifiedStatus) ==
  [f \in DOMAIN storedStatus |->
     IF modifiedStatus[f] # snapshotStatus[f] THEN modifiedStatus[f] ELSE storedStatus[f]]

\* deferPatch that sends nothing when the status did not change.
deferPatch_SkipsUnchanged(storedStatus, snapshotStatus, modifiedStatus, F) ==
  IF modifiedStatus = snapshotStatus
    THEN [status |-> storedStatus, calls |-> {}, patches |-> 0]
  ELSE IF <<"PatchStatus", 0>> \in F
    THEN [status |-> storedStatus, calls |-> {Call("PatchStatus", 0, FALSE)}, patches |-> 1]
  ELSE [status |-> MergePatch(storedStatus, snapshotStatus, modifiedStatus),
        calls |-> {Call("PatchStatus", 0, TRUE)}, patches |-> 1]

\* deferPatch: one Status().Patch call; a failure is only logged.
deferPatch(storedStatus, snapshotStatus, modifiedStatus, F) ==
  IF <<"PatchStatus", 0>> \in F
    THEN [status |-> storedStatus, calls |-> {Call("PatchStatus", 0, FALSE)}, patches |-> 1]
    ELSE [status |-> MergePatch(storedStatus, snapshotStatus, modifiedStatus),
          calls |-> {Call("PatchStatus", 0, TRUE)}, patches |-> 1]

\* The parent Get whose not-found error is taken for success.
GetCES_IgnoresNotFound(obj, F) ==
  IF <<"GetCES", 0>> \in F THEN "error" ELSE "none"

\* r.Get of the parent and the test apierrors.IsNotFound on its error.
GetCES(obj, F) ==
  IF <<"GetCES", 0>> \in F THEN "error"
  ELSE IF ~obj.exists THEN "notfound"
  ELSE "none"

EmptyStatus ==
  [provisionedNamespaces |-> <<>>, failedNamespaces |-> <<>>, conditions |-> <<>>]

NoCycle ==
  [exit |-> "none", err |-> FALSE, requeueAfter |-> 0, patches |-> 0, calls |-> {},
   items |-> <<>>, status |-> EmptyStatus,
   startChildren |-> <<>>, startStatus |-> EmptyStatus]

\* One Reconcile of the stored parent obj: `order` is the order in which the
\* namespace list is returned, `iter` the order in which the failure map is
\* iterated, F the API calls that fail. The result holds the children and the
\* stored status after the cycle and the record of the cycle.
ReconcileCycle(obj, ch, order, iter, F) ==
  LET start == [NoCycle EXCEPT !.startChildren = ch, !.startStatus = obj.status,
                               !.status = obj.status]
      labelSelector == LabelSelectorAsSelector(obj.spec.namespaceSelector)
      namespaceList == ListNamespaces(order, labelSelector)
      esName == EsName(obj)
      removal == removeOldNamespaces(ch, namespaceList, esName,
                                     obj.status.provisionedNamespaces, F)
      done == matchLoop(namespaceList, obj, F,
                        [children |-> removal.children, failed |-> removal.failed,
                         provisioned |-> <<>>, calls |-> removal.calls])
      condition == NewClusterExternalSecretCondition(done.failed, namespaceList)
      modified ==
        [SetClusterExternalSecretCondition(obj.status, condition) EXCEPT
           !.failedNamespaces = toNamespaceFailures(done.failed, iter),
           !.provisionedNamespaces = SortStrings(done.provisioned)]
  IN
  IF GetCES(obj, F) = "error"
    THEN [children |-> ch, stored |-> obj.status,
          cycle |-> [start EXCEPT !.exit = "fetcherr",
                                  !.calls = {Call("GetCES", 0, FALSE)}]]
  ELSE IF GetCES(obj, F) = "notfound"
    THEN [children |-> ch, stored |-> obj.status,
          cycle |-> [start EXCEPT !.exit = "notfound",
                                  !.calls = {Call("GetCES", 0, TRUE)}]]
  ELSE IF labelSelector.err
    THEN LET patch == deferPatch(obj.status, obj.status, obj.status, F) IN
         [children |-> ch, stored |-> patch.status,
          cycle |-> [start EXCEPT !.exit = "selector", !.err = TRUE,
                                  !.requeueAfter = RefreshInt(obj),
                                  !.patches = patch.patches,
                                  !.calls = {Call("GetCES", 0, TRUE)} \cup patch.calls]]
  ELSE IF <<"ListNS", 0>> \in F
    THEN LET patch == deferPatch(obj.status, obj.status, obj.status, F) IN
         [children |-> ch, stored |-> patch.status,
          cycle |-> [start EXCEPT !.exit = "list", !.err = TRUE,
                                  !.requeueAfter = RefreshInt(obj),
                                  !.patches = patch.patches,
                                  !.calls = {Call("GetCES", 0, TRUE), Call("ListNS", 0, FALSE)}
                                              \cup patch.calls]]
  ELSE LET patch == deferPatch(obj.status, obj.status, modified, F) IN
         [children |-> done.children, stored |-> patch.status,
          cycle |-> [start EXCEPT !.exit = "done",
                                  !.requeueAfter = RefreshInt(obj),
                                  !.patches = patch.patches,
                                  !.items = namespaceList,
                                  !.status = modified,
                                  !.calls = {Call("GetCES", 0, TRUE), Call("ListNS", 0, TRUE)}
                                              \cup done.calls \cup patch.calls]]

Failures(cycle) == {c \in cycle.calls : ~c.ok}

\* ------------------------------------------------------ the namespace watch
\* The labels a namespace of an event can carry.
WatchLabels == {"env=prod", "team=a"}

\* GetLabels() of an object the informer delivered: a Go map, nil or not. The
\* API machinery leaves a label map without entries off the wire (omitempty),
\* so a namespace without labels is decoded with a nil map.
GetLabels(labelSet) == [nil |-> labelSet = {}, entries |-> labelSet]

\* reflect.DeepEqual on two maps: both nil or both non-nil, and the same entries.
DeepEqual(a, b) == a.nil = b.nil /\ a.entries = b.entries

\* ObjectOld / ObjectNew / Object of an event: nil, or a namespace.
NilObject == [nil |-> TRUE, labels |-> GetLabels({})]
NamespaceObject(labelSet) == [nil |-> FALSE, labels |-> GetLabels(labelSet)]
NamespaceObjects == {NamespaceObject(l) : l \in SUBSET WatchLabels}

\* event.CreateEvent, event.UpdateEvent, event.DeleteEvent. A create or delete
\* event carries its object as objectNew.
Events ==
  [kind : {"create", "delete"}, objectOld : {NilObject}, objectNew : NamespaceObjects]
    \cup [kind : {"update"}, objectOld : NamespaceObjects \cup {NilObject},
          objectNew : NamespaceObjects \cup {NilObject}]

\* namespacePredicate whose UpdateFunc lets every update through.
namespacePredicate_AcceptsUpdates(e) == TRUE

\* namespacePredicate: CreateFunc, UpdateFunc and DeleteFunc applied to event e.
namespacePredicate(e) ==
  IF e.kind = "create" THEN TRUE
  ELSE IF e.kind = "update"
    THEN IF e.objectOld.nil \/ e.objectNew.nil THEN FALSE
         ELSE ~DeepEqual(e.objectOld.labels, e.objectNew.labels)
  ELSE TRUE

\* The parent collections: up to MaxParents parents, each with its selector; the
\* parent at place i of the collection is named by i.
ParentCollections ==
  UNION {[1..k -> [name : 1..MaxParents, namespaceSelector : Selectors]] : k \in 0..MaxParents}

Collections == {c \in ParentCollections : \A i \in DOMAIN c : c[i].name = i}

\* r.List of the parents with Limit and Continue: the page that starts after
\* `continue` items, and the token of the next page, 0 (the empty token) when
\* this page is the last.
ListParents(items, continue, fails) ==
  IF fails THEN [err |-> TRUE, items |-> <<>>, continue |-> 0]
  ELSE
    LET last == IF continue + PageLimit < Len(items) THEN continue + PageLimit
                ELSE Len(items)
    IN [err |-> FALSE, items |-> SubSeq(items, continue + 1, last),
        continue |-> IF last < Len(items) THEN last ELSE 0]

RECURSIVE pageLoop(_, _, _)
\* The loop of findObjectsForNamespace over the items of one page.
pageLoop(page, namespaceLabels, requests) ==
  IF page = <<>> THEN [err |-> FALSE, requests |-> requests]
  ELSE
    LET labelSelector == LabelSelectorAsSelector(Head(page).namespaceSelector) IN
      IF labelSelector.err THEN [err |-> TRUE, requests |-> requests]
      ELSE pageLoop(Tail(page), namespaceLabels,
                    IF Matches(labelSelector, namespaceLabels)
                      THEN Append(requests, Head(page).name) ELSE requests)

\* One pass of findObjectsForNamespace that returns what it gathered so far
\* when a page or a selector fails.
findObjectsPage_KeepsGathered(items, continue, requests, namespaceLabels, fails) ==
  LET list == ListParents(items, continue, fails)
      inner == pageLoop(list.items, namespaceLabels, requests)
  IN IF list.err
       THEN [returned |-> TRUE, result |-> requests, continue |-> continue,
             requests |-> requests]
     ELSE IF inner.err
       THEN [returned |-> TRUE, result |-> inner.requests, continue |-> continue,
             requests |-> inner.requests]
     ELSE IF list.continue = 0
       THEN [returned |-> TRUE, result |-> inner.requests, continue |-> 0,
             requests |-> inner.requests]
     ELSE [returned |-> FALSE, result |-> <<>>, continue |-> list.continue,
           requests |-> inner.requests]

\* One pass of the outer loop of findObjectsForNamespace: list a page, evaluate
\* the selectors of its items, and return or go on with the next token.
findObjectsPage(items, continue, requests, namespaceLabels, fails) ==
  LET list == ListParents(items, continue, fails)
      inner == pageLoop(list.items, namespaceLabels, requests)
  IN IF list.err
       THEN [returned |-> TRUE, result |-> <<>>, continue |-> continue,
             requests |-> requests]
     ELSE IF inner.err
       THEN [returned |-> TRUE, result |-> <<>>, continue |-> continue,
             requests |-> inner.requests]
     ELSE IF list.continue = 0
       THEN [returned |-> TRUE, result |-> inner.requests, continue |-> 0,
             requests |-> inner.requests]
     ELSE [returned |-> FALSE, result |-> <<>>, continue |-> list.continue,
           requests |-> inner.requests]

\* The watch before an event arrives, over the parent collection `items`.
WatchIdle(items) ==
  [phase |-> "idle", items |-> items,
   event |-> [kind |-> "create", objectOld |-> NilObject, objectNew |-> NilObject],
   accepted |-> FALSE, namespaceLabels |-> {}, continue |-> 0, pages |-> 0,
   listErr |-> FALSE, requests |-> <<>>, result |-> <<>>]

\* ------------------------------------------------ two parents, one namespace
\* Two parents with the same Spec.ExternalSecretName whose selectors both match
\* the namespace ConcNamespace; their templates differ.
ConcParents == {"ces1", "ces2"}
ConcNamespace == 1
ConcName == "es"
ConcParent(p) ==
  [name |-> p, exists |-> TRUE,
   spec |-> [namespaceSelector |-> [valid |-> TRUE, matchLabels |-> {}],
             externalSecretName |-> ConcName,
             externalSecretSpec |-> IF p = "ces1" THEN "s1" ELSE "s2",
             externalSecretMetadata |-> [labels |-> "l1", annotations |-> "a1"],
             refreshInterval |-> <<>>],
   status |-> EmptyStatus]

\* The stored child with its resourceVersion and the parent whose Create or
\* Update wrote it last ("none": written by someone else).
StoredChild(child, resourceVersion, writer) ==
  [exists |-> TRUE, spec |-> child.spec, labels |-> child.labels,
   annotations |-> child.annotations, ownerReferences |-> child.ownerReferences,
   resourceVersion |-> resourceVersion, writer |-> writer]

\* The children of the namespace as getExternalSecret reads them.
ConcChildren(child) == (ConcNamespace :> (ConcName :> child))

\* Both parents between two cycles, the namespace holding `child`.
ConcIdle(child) ==
  [child |-> child,
   pc |-> [p \in ConcParents |-> "idle"],
   existingES |-> [p \in ConcParents |->
                     getExternalSecret(ConcChildren(NoChild), ConcNamespace, ConcName, {})],
   object |-> [p \in ConcParents |-> NoChild],
   result |-> [p \in ConcParents |-> ""],
   cycles |-> [p \in ConcParents |-> 0]]

\* ------------------------------------------------------------------ actions
Init ==
  /\ nsLabels \in [Namespaces -> SUBSET Labels]
  /\ children = [n \in Namespaces |-> [name \in ChildNames |-> NoChild]]
  /\ ces = [p \in Parents |->
                [name |-> p, exists |-> TRUE,
                 spec |-> [namespaceSelector |-> [valid |-> TRUE, matchLabels |-> {"env=prod"}],
                           externalSecretName |-> "",
                           externalSecretSpec |-> "s1",
                           externalSecretMetadata |-> [labels |-> "l1", annotations |-> "a1"],
                           refreshInterval |-> <<>>],
                 status |-> EmptyStatus]]
  /\ lastCycle = [p \in Parents |-> NoCycle]
  /\ streak = 0
  /\ envBudget = MaxEnvSteps
  /\ failBudget = MaxFailures
  /\ watch = WatchIdle(<<>>)
  /\ conc = ConcIdle(NoChild)

\* The work queue hands parent p to a worker, which runs Reconcile to its end.
\* Every fault of F hits a call the cycle makes (a fault fails one call).
Reconcile(p) ==
  \E order \in NamespaceOrders, iter \in NamespaceOrders, F \in FaultSets(failBudget) :
    LET out == ReconcileCycle(ces[p], children, order, iter, F) IN
      /\ Cardinality(Failures(out.cycle)) = Cardinality(F)
      /\ children' = out.children
      /\ ces' = [ces EXCEPT ![p].status = out.stored]
      /\ lastCycle' = [lastCycle EXCEPT ![p] = out.cycle]
      /\ failBudget' = failBudget - Cardinality(F)
      /\ streak' = IF F = {} THEN (IF streak < 2 THEN streak + 1 ELSE 2) ELSE 0
      /\ UNCHANGED <<nsLabels, envBudget, watch, conc>>

\* The names the parents give their children: other actors are modelled only
\* where they touch a resource of such a name.
TargetNames == {EsName(ces[p]) : p \in Parents}

\* A write by an actor other than the controller; the record of the last cycle
\* describes the cluster no longer and is dropped.
External ==
  /\ envBudget > 0
  /\ envBudget' = envBudget - 1
  /\ streak' = 0
  /\ lastCycle' = [p \in Parents |-> NoCycle]
  /\ UNCHANGED <<failBudget, watch, conc>>

\* Someone relabels a namespace.
RelabelNamespace ==
  /\ External
  /\ \E n \in Namespaces, l \in SUBSET Labels :
       /\ l # nsLabels[n]
       /\ nsLabels' = [nsLabels EXCEPT ![n] = l]
  /\ UNCHANGED <<children, ces>>

\* Someone creates a resource with a child's name where there is none.
CreateChild ==
  /\ External
  /\ \E n \in Namespaces, name \in TargetNames, owners \in ExternalOwners :
       /\ ~children[n][name].exists
       /\ children' = [children EXCEPT ![n][name] =
                         Child("s2", [labels |-> "l2", annotations |-> "a2"], owners)]
  /\ UNCHANGED <<nsLabels, ces>>

\* Someone edits the spec, the labels and annotations, or the owner references
\* of a resource with a child's name.
EditChild ==
  /\ External
  /\ \E n \in Namespaces, name \in TargetNames, spec \in Specs, meta \in Metas,
        owners \in ExternalOwners :
       LET old == children[n][name]
           new == Child(spec, meta, owners)
       IN /\ old.exists
          /\ Cardinality({f \in DOMAIN new : new[f] # old[f]} \ {"annotations"}) = 1
          /\ (new.labels = old.labels) = (new.annotations = old.annotations)
          /\ children' = [children EXCEPT ![n][name] = new]
  /\ UNCHANGED <<nsLabels, ces>>

\* Someone deletes a resource with a child's name.
DeleteChild ==
  /\ External
  /\ \E n \in Namespaces, name \in TargetNames :
       /\ children[n][name].exists
       /\ children' = [children EXCEPT ![n][name] = NoChild]
  /\ UNCHANGED <<nsLabels, ces>>

\* The operator edits the parent's spec.
UpdateParent ==
  /\ External
  /\ \E p \in Parents, sel \in Selectors, name \in {"", "es"}, spec \in Specs,
        meta \in Metas, interval \in RefreshIntervals :
       LET new == [namespaceSelector |-> sel, externalSecretName |-> name,
                   externalSecretSpec |-> spec, externalSecretMetadata |-> meta,
                   refreshInterval |-> interval]
       IN /\ ces[p].exists
          /\ new # ces[p].spec
          /\ Cardinality({f \in DOMAIN new : new[f] # ces[p].spec[f]}) = 1
          /\ ces' = [ces EXCEPT ![p].spec = new]
  /\ UNCHANGED <<nsLabels, children>>

\* The operator deletes the parent; the API server's garbage collector removes
\* the resources that name it in an owner reference.
DeleteParent ==
  /\ External
  /\ \E p \in Parents :
       /\ ces[p].exists
       /\ ces' = [ces EXCEPT ![p].exists = FALSE]
       /\ children' =
            [n \in Namespaces |-> [name \in ChildNames |->
               IF /\ children[n][name].exists
                  /\ \E o \in children[n][name].ownerReferences : o.uid = p
                 THEN NoChild ELSE children[n][name]]]
  /\ UNCHANGED nsLabels

Next ==
  \/ \E p \in Parents : Reconcile(p)
  \/ RelabelNamespace
  \/ CreateChild
  \/ EditChild
  \/ DeleteChild
  \/ UpdateParent
  \/ DeleteParent

Spec == Init /\ [][Next]_vars

\* --------------------------------------------------- reading the last cycle
\* The namespaces whose labels satisfy the parent's selector.
MatchedNow(p) ==
  {n \in Namespaces : ces[p].spec.namespaceSelector.matchLabels \subseteq nsLabels[n]}

\* The namespaces the stored status listed as provisioned when the cycle began
\* and that match no longer.
RemovedAtStart(p) ==
  Range(lastCycle[p].startStatus.provisionedNamespaces) \ MatchedNow(p)

\* The last cycle of p ran the removal pass and the loop over the matched namespaces.
Completed(p) == lastCycle[p].exit = "done"

StartChild(p, n) == lastCycle[p].startChildren[n][EsName(ces[p])]
NowChild(p, n) == children[n][EsName(ces[p])]

ControllerOwned(child, p) ==
  child.exists /\ [uid |-> p, controller |-> TRUE] \in child.ownerReferences

UnownedAtStart(p, n) ==
  StartChild(p, n).exists /\ StartChild(p, n).ownerReferences = {}

\* The calls of the last cycle on the child in namespace n.
CallsOn(p, n, ops) == {c \in lastCycle[p].calls : c.ns = n /\ c.op \in ops}
Failed(p, n, ops) == \E c \in CallsOn(p, n, ops) : ~c.ok

FailedNs(status) == {status.failedNamespaces[i].namespace : i \in DOMAIN status.failedNamespaces}
ReasonsOf(status, n) ==
  {status.failedNamespaces[i].reason :
     i \in {j \in DOMAIN status.failedNamespaces : status.failedNamespaces[j].namespace = n}}

PatchOk(p) == Call("PatchStatus", 0, TRUE) \in lastCycle[p].calls

\* The unowned resource of namespace n came through the cycle untouched and
\* the namespace is not provisioned.
UnownedLeftAlone(p, n) ==
  /\ NowChild(p, n) = StartChild(p, n)
  /\ CallsOn(p, n, {"Create", "Update", "Delete"}) = {}
  /\ n \notin Range(lastCycle[p].status.provisionedNamespaces)
  /\ PatchOk(p) => n \notin Range(ces[p].status.provisionedNamespaces)

\* C1 (as stated): in every completed cycle, a namespace that is matched or in
\* the removed set and held an unowned resource of the child's name at the start
\* keeps it untouched, is not provisioned, and is reported with the reason
\* "external secret already exists in namespace".
C1_AsStated ==
  \A p \in Parents : Completed(p) =>
    \A n \in MatchedNow(p) \cup RemovedAtStart(p) : UnownedAtStart(p, n) =>
      /\ UnownedLeftAlone(p, n)
      /\ ReasonsOf(lastCycle[p].status, n) = {errSecretAlreadyExists}

\* C1 (amended): the same, with the reason "external secret already exists in
\* namespace" when the metadata Get of the resource succeeded and "could not get
\* existing ExternalSecret" when that Get failed.
C1_OwnershipSafety ==
  \A p \in Parents : Completed(p) =>
    \A n \in MatchedNow(p) \cup RemovedAtStart(p) : UnownedAtStart(p, n) =>
      /\ UnownedLeftAlone(p, n)
      /\ ReasonsOf(lastCycle[p].status, n) =
           IF Failed(p, n, {"GetES"}) THEN {errGetExistingES} ELSE {errSecretAlreadyExists}
      /\ PatchOk(p) => ReasonsOf(ces[p].status, n) = ReasonsOf(lastCycle[p].status, n)

\* A completed cycle met an unowned resource whose spec is not the template in
\* a matched namespace and reported the naming conflict.
C1_Witness ==
  \E p \in Parents : Completed(p) /\
    \E n \in MatchedNow(p) :
      /\ UnownedAtStart(p, n)
      /\ StartChild(p, n).spec # ces[p].spec.externalSecretSpec
      /\ ReasonsOf(ces[p].status, n) = {errSecretAlreadyExists}

\* The same in a namespace of the removed set.
C1_WitnessRemoved ==
  \E p \in Parents : Completed(p) /\
    \E n \in RemovedAtStart(p) :
      /\ UnownedAtStart(p, n)
      /\ ReasonsOf(ces[p].status, n) = {errSecretAlreadyExists}

\* C2 (as stated): in every completed cycle, a matched namespace whose child
\* exists without the parent as its controller owner keeps the child's spec and
\* owner references and is reported as failed, not as provisioned.
C2_ForeignChildUntouched ==
  \A p \in Parents : Completed(p) =>
    \A n \in MatchedNow(p) :
      (StartChild(p, n).exists /\ ~ControllerOwned(StartChild(p, n), p)) =>
        /\ NowChild(p, n).exists
        /\ NowChild(p, n).spec = StartChild(p, n).spec
        /\ NowChild(p, n).ownerReferences = StartChild(p, n).ownerReferences
        /\ n \in FailedNs(lastCycle[p].status)
        /\ n \notin Range(lastCycle[p].status.provisionedNamespaces)

\* The parent's child of namespace n is gone after the cycle.
ChildDeleted(p, n) == ControllerOwned(StartChild(p, n), p) => ~NowChild(p, n).exists

Stranded(p, n) ==
  /\ ces[p].exists
  /\ ces[p].spec.namespaceSelector.valid
  /\ n \notin MatchedNow(p)
  /\ ControllerOwned(NowChild(p, n), p)

\* The stored status no longer lists the namespace of a stranded child, so no
\* removal pass will look at it.
Forgotten(p, n) ==
  Stranded(p, n) /\ n \notin Range(ces[p].status.provisionedNamespaces)

\* C4 (as stated): a failed delete or a lost status patch does not make the
\* controller forget a namespace that holds a child of the parent and matches
\* no longer, so that a later cycle deletes the child.
C4_NotForgotten ==
  \A p \in Parents : \A n \in Namespaces : ~Forgotten(p, n)

\* No cycle brings a forgotten namespace back: without an external write the
\* child stays where it is, and stays forgotten.
C4_ForgottenForGood ==
  [][\A p \in Parents : \A n \in Namespaces :
       (Forgotten(p, n) /\ envBudget' = envBudget) => Forgotten(p, n)']_vars

\* C5 (as stated): the second of two consecutive cycles without a failed API
\* call and without an external write in between leaves the children and the
\* stored status (provisionedNamespaces, failedNamespaces, condition status) as
\* the first left them.
C5_Idempotent ==
  \A p \in Parents : (streak = 2 /\ lastCycle[p].exit # "none") =>
    /\ children = lastCycle[p].startChildren
    /\ ces[p].status.provisionedNamespaces = lastCycle[p].startStatus.provisionedNamespaces
    /\ ces[p].status.failedNamespaces = lastCycle[p].startStatus.failedNamespaces
    /\ [i \in DOMAIN ces[p].status.conditions |-> ces[p].status.conditions[i].status]
         = [i \in DOMAIN lastCycle[p].startStatus.conditions |->
              lastCycle[p].startStatus.conditions[i].status]

\* C6: in every completed cycle, a matched namespace whose child was
\* controller-owned by the parent at the start and whose API calls all succeeded
\* holds a child with the parent's current template as spec.
C6_DriftCorrection ==
  \A p \in Parents : Completed(p) =>
    \A n \in MatchedNow(p) :
      (/\ ControllerOwned(StartChild(p, n), p)
       /\ ~Failed(p, n, {"GetES", "Get", "Create", "Update"})) =>
        /\ NowChild(p, n).exists
        /\ NowChild(p, n).spec = ces[p].spec.externalSecretSpec

\* A completed cycle found the parent's child with another spec than the template
\* and wrote the template back.
C6_Witness ==
  \E p \in Parents : Completed(p) /\
    \E n \in MatchedNow(p) :
      /\ ControllerOwned(StartChild(p, n), p)
      /\ StartChild(p, n).spec # ces[p].spec.externalSecretSpec
      /\ NowChild(p, n).spec = ces[p].spec.externalSecretSpec
      /\ Call("Update", n, TRUE) \in lastCycle[p].calls

\* C7 (as stated, for the children the cycle created or found controlled by
\* the parent): after a completed cycle whose status patch succeeded, every
\* namespace in provisionedNamespaces holds a child with the template as spec,
\* the parent's externalSecretMetadata as labels and annotations, and the parent
\* as controller owner.
C7_ProvisionedChildrenMatch ==
  \A p \in Parents : (Completed(p) /\ PatchOk(p)) =>
    \A n \in Range(ces[p].status.provisionedNamespaces) :
      (StartChild(p, n).exists => ControllerOwned(StartChild(p, n), p)) =>
        /\ NowChild(p, n).exists
        /\ NowChild(p, n).spec = ces[p].spec.externalSecretSpec
        /\ NowChild(p, n).labels = ces[p].spec.externalSecretMetadata.labels
        /\ NowChild(p, n).annotations = ces[p].spec.externalSecretMetadata.annotations
        /\ ControllerOwned(NowChild(p, n), p)

\* The fetch, the ownership check and the create-or-update of matched namespace n
\* all succeeded in the last cycle.
UpsertOk(p, n) ==
  /\ ~Failed(p, n, {"GetES"})
  /\ ~UnownedAtStart(p, n)
  /\ ~(StartChild(p, n).exists /\
         \E o \in StartChild(p, n).ownerReferences : o.controller /\ o.uid # p)
  /\ ~Failed(p, n, {"Get", "Create", "Update"})

\* The removal of namespace n failed in the last cycle.
RemovalFailed(p, n) ==
  /\ n \in RemovedAtStart(p)
  /\ Failed(p, n, {"GetES", "Delete"}) \/ UnownedAtStart(p, n)

\* C8: after every completed cycle, the computed provisionedNamespaces are
\* exactly the matched namespaces whose fetch, ownership check and
\* create-or-update succeeded, whatever was provisioned before, and
\* failedNamespaces has exactly one entry for every matched namespace that
\* failed and every removed namespace whose removal failed; a successful patch
\* stores both.
C8_StatusRecomputed ==
  \A p \in Parents : Completed(p) =>
    LET status == lastCycle[p].status IN
      /\ Range(status.provisionedNamespaces) = {n \in MatchedNow(p) : UpsertOk(p, n)}
      /\ Len(status.provisionedNamespaces) = Cardinality(Range(status.provisionedNamespaces))
      /\ FailedNs(status) =
           {n \in MatchedNow(p) : ~UpsertOk(p, n)}
             \cup {n \in Namespaces : RemovalFailed(p, n)}
      /\ Len(status.failedNamespaces) = Cardinality(FailedNs(status))
      /\ PatchOk(p) =>
           /\ ces[p].status.provisionedNamespaces = status.provisionedNamespaces
           /\ ces[p].status.failedNamespaces = status.failedNamespaces

\* A completed cycle provisioned one namespace, failed another, and dropped a
\* namespace that the status listed as provisioned before.
C8_Witness ==
  \E p \in Parents : Completed(p) /\ PatchOk(p) /\
    /\ ces[p].status.provisionedNamespaces # <<>>
    /\ ces[p].status.failedNamespaces # <<>>
    /\ Range(lastCycle[p].startStatus.provisionedNamespaces)
         \ Range(ces[p].status.provisionedNamespaces) # {}

\* C9: in every stored status, no namespace is both in provisionedNamespaces and
\* in failedNamespaces.
C9_ProvisionedFailedDisjoint ==
  \A p \in Parents :
    Range(ces[p].status.provisionedNamespaces) \cap FailedNs(ces[p].status) = {}

\* A stored status that lists a provisioned namespace and a failed one, where
\* the failed one was provisioned before the cycle.
C9_Witness ==
  \E p \in Parents : Completed(p) /\ PatchOk(p) /\
    /\ ces[p].status.provisionedNamespaces # <<>>
    /\ FailedNs(ces[p].status)
         \cap Range(lastCycle[p].startStatus.provisionedNamespaces) # {}

PatchCalls(p) == {c \in lastCycle[p].calls : c.op = "PatchStatus"}

\* C10 (as stated): the status patch is attempted exactly once on the exits by
\* parent fetch error, selector conversion failure, namespace list failure and
\* normal completion.
C10_AsStated ==
  \A p \in Parents :
    lastCycle[p].exit \in {"fetcherr", "selector", "list", "done"} =>
      lastCycle[p].patches = 1 /\ Cardinality(PatchCalls(p)) = 1

\* C10 (amended): the status patch is attempted exactly once on the exits by
\* selector conversion failure, namespace list failure and normal completion,
\* and not at all when the parent could not be fetched; a successful patch
\* stores the status the cycle computed from the one it read at its start, a
\* failed or absent patch leaves that one stored.
C10_PatchOncePerCycle ==
  \A p \in Parents :
    /\ lastCycle[p].exit \in {"selector", "list", "done"} =>
         /\ lastCycle[p].patches = 1 /\ Cardinality(PatchCalls(p)) = 1
         /\ ces[p].status =
              IF PatchOk(p) THEN lastCycle[p].status ELSE lastCycle[p].startStatus
    /\ lastCycle[p].exit \in {"selector", "list"} =>
         lastCycle[p].status = lastCycle[p].startStatus
    /\ lastCycle[p].exit \in {"fetcherr", "notfound"} =>
         /\ lastCycle[p].patches = 0 /\ PatchCalls(p) = {}
         /\ ces[p].status = lastCycle[p].startStatus

\* A cycle that returned early, on a failed namespace listing or a selector
\* that does not convert, and patched the status once.
C10_Witness ==
  \E p \in Parents :
    /\ lastCycle[p].exit \in {"selector", "list"}
    /\ lastCycle[p].startStatus.provisionedNamespaces # <<>>
    /\ PatchCalls(p) = {Call("PatchStatus", 0, TRUE)}

\* A cycle of p ran past the fetch of the parent.
Fetched(p) == lastCycle[p].exit \in {"selector", "list", "done"}

\* C11 (as stated): every cycle but the one that finds the parent absent returns
\* RequeueAfter equal to the effective interval, on success, per-namespace
\* failures, selector or list failure, parent fetch error and status patch
\* failure alike.
C11_AsStated ==
  \A p \in Parents :
    lastCycle[p].exit \in {"fetcherr", "selector", "list", "done"} =>
      lastCycle[p].requeueAfter = RefreshInt(ces[p])

\* C11 (amended): every cycle that fetched the parent returns RequeueAfter equal
\* to the effective interval (Spec.RefreshInterval if set, RequeueInterval
\* otherwise), whether it completed, failed in some namespaces, failed on the
\* selector or the namespace list, or failed to patch the status; a cycle that
\* finds the parent absent or fails to fetch it returns an empty result.
C11_RequeueAfterInterval ==
  \A p \in Parents :
    /\ Fetched(p) =>
         /\ lastCycle[p].requeueAfter = RefreshInt(ces[p])
         /\ lastCycle[p].requeueAfter =
              IF ces[p].spec.refreshInterval = <<>> THEN RequeueInterval
              ELSE ces[p].spec.refreshInterval[1]
    /\ lastCycle[p].exit \in {"fetcherr", "notfound"} =>
         lastCycle[p].requeueAfter = 0 /\ ~lastCycle[p].err

\* A cycle of a parent with a refreshInterval of its own whose status patch
\* failed returned that interval.
C11_Witness ==
  \E p \in Parents :
    /\ Fetched(p)
    /\ ces[p].spec.refreshInterval # <<>>
    /\ Call("PatchStatus", 0, FALSE) \in lastCycle[p].calls
    /\ lastCycle[p].requeueAfter = ces[p].spec.refreshInterval[1]

\* The last cycle of p met a selector that does not convert or a failed
\* namespace listing.
FatalForCycle(p) ==
  /\ lastCycle[p].exit \notin {"none", "fetcherr", "notfound"}
  /\ \/ ~ces[p].spec.namespaceSelector.valid
     \/ Call("ListNS", 0, FALSE) \in lastCycle[p].calls

\* C12: a cycle whose selector does not convert or whose namespace listing fails
\* returns the error with RequeueAfter equal to the effective interval, makes no
\* get, create, update or delete call on any child, leaves every child as it
\* was, and patches a status whose provisionedNamespaces, failedNamespaces and
\* condition are those read at the start of the cycle.
C12_FatalErrorTouchesNothing ==
  \A p \in Parents : FatalForCycle(p) =>
    /\ lastCycle[p].exit \in {"selector", "list"}
    /\ lastCycle[p].err
    /\ lastCycle[p].requeueAfter = RefreshInt(ces[p])
    /\ \A c \in lastCycle[p].calls : c.op \in {"GetCES", "ListNS", "PatchStatus"}
    /\ children = lastCycle[p].startChildren
    /\ lastCycle[p].status = lastCycle[p].startStatus
    /\ ces[p].status = lastCycle[p].startStatus

\* A cycle of a parent whose selector does not convert, with a provisioned
\* namespace and a child of the parent in place, patched the status it read.
C12_Witness ==
  \E p \in Parents : \E n \in Namespaces :
    /\ ~ces[p].spec.namespaceSelector.valid
    /\ lastCycle[p].exit = "selector"
    /\ PatchOk(p)
    /\ n \in Range(ces[p].status.provisionedNamespaces)
    /\ ControllerOwned(NowChild(p, n), p)

\* The same for a failed namespace listing.
C12_WitnessList ==
  \E p \in Parents : \E n \in Namespaces :
    /\ lastCycle[p].exit = "list"
    /\ PatchOk(p)
    /\ n \in Range(ces[p].status.provisionedNamespaces)
    /\ ControllerOwned(NowChild(p, n), p)

\* C13: a failure in one namespace (child fetch error, ownership conflict,
\* owner-reference error, create-or-update error, delete error) does not stop
\* the cycle: the child of every removed namespace is fetched, and deleted when
\* its calls succeed; the child of every matched namespace is fetched, and the
\* namespace is provisioned with the template when its own operations succeed;
\* Reconcile returns a nil error.
C13_FailureIsolation ==
  \A p \in Parents : Completed(p) =>
    /\ ~lastCycle[p].err
    /\ \A n \in RemovedAtStart(p) :
         /\ CallsOn(p, n, {"GetES"}) # {}
         /\ ~Failed(p, n, {"GetES", "Delete"}) => ChildDeleted(p, n)
    /\ \A n \in MatchedNow(p) :
         /\ CallsOn(p, n, {"GetES"}) # {}
         /\ UpsertOk(p, n) =>
              /\ n \in Range(lastCycle[p].status.provisionedNamespaces)
              /\ NowChild(p, n).exists
              /\ NowChild(p, n).spec = ces[p].spec.externalSecretSpec

\* A completed cycle failed in the namespace the list returned first and
\* provisioned the one that came after it.
C13_Witness ==
  \E p \in Parents : Completed(p) /\
    \E n, m \in Namespaces :
      /\ lastCycle[p].items = <<n, m>>
      /\ n \in FailedNs(lastCycle[p].status)
      /\ m \in Range(lastCycle[p].status.provisionedNamespaces)
      /\ CallsOn(p, m, {"Create", "Update"}) # {}

\* The failures of the last cycle: the matched namespaces that failed and the
\* removed namespaces whose removal failed.
CycleFailures(p) ==
  {n \in MatchedNow(p) : ~UpsertOk(p, n)} \cup {n \in Namespaces : RemovalFailed(p, n)}

\* C14: after every completed cycle the status holds one condition, whose status
\* is "True" if and only if no matched namespace failed and no removal failed in
\* that cycle; it takes the place of the condition of the cycle before, and a
\* successful patch stores it.
C14_ConditionReflectsFailures ==
  \A p \in Parents : Completed(p) =>
    LET conditions == lastCycle[p].status.conditions IN
      /\ Len(conditions) = 1
      /\ conditions[1].status \in {"True", "False"}
      /\ (conditions[1].status = "True") <=> (CycleFailures(p) = {})
      /\ PatchOk(p) => ces[p].status.conditions = conditions

\* A completed cycle without failures replaced the failed condition of the
\* cycle before by a succeeded one.
C14_Witness ==
  \E p \in Parents : Completed(p) /\ PatchOk(p) /\
    /\ Len(lastCycle[p].startStatus.conditions) = 1
    /\ lastCycle[p].startStatus.conditions[1].status = "False"
    /\ Len(ces[p].status.conditions) = 1
    /\ ces[p].status.conditions[1].status = "True"

\* A completed cycle whose only failure was a removal stored a failed condition.
C14_WitnessRemoval ==
  \E p \in Parents : Completed(p) /\ PatchOk(p) /\
    /\ {n \in MatchedNow(p) : ~UpsertOk(p, n)} = {}
    /\ \E n \in Namespaces : RemovalFailed(p, n)
    /\ ces[p].status.conditions[1].status = "False"

StrictlyAscending(s) == \A i, j \in DOMAIN s : i < j => s[i] < s[j]

SortedStatus(status) ==
  /\ StrictlyAscending(status.provisionedNamespaces)
  /\ StrictlyAscending([i \in DOMAIN status.failedNamespaces |->
                          status.failedNamespaces[i].namespace])

\* C15: in the status a completed cycle computes, and in every stored status,
\* provisionedNamespaces is in ascending order without duplicates and
\* failedNamespaces is in ascending order of namespace with at most one entry
\* per namespace, in whatever order the namespaces were listed and the failure
\* map was iterated.
C15_SortedStatus ==
  \A p \in Parents :
    /\ Completed(p) => SortedStatus(lastCycle[p].status)
    /\ SortedStatus(ces[p].status)

\* A completed cycle that was handed the namespaces in descending order stored
\* both as provisioned.
C15_Witness ==
  \E p \in Parents : Completed(p) /\ PatchOk(p) /\
    /\ Len(lastCycle[p].items) = 2
    /\ lastCycle[p].items[1] > lastCycle[p].items[2]
    /\ Len(ces[p].status.provisionedNamespaces) = 2

\* A completed cycle stored two failed namespaces.
C15_WitnessFailed ==
  \E p \in Parents : Completed(p) /\ PatchOk(p) /\
    Len(ces[p].status.failedNamespaces) = 2

\* C18: a cycle that finds the parent absent returns no error and no requeue
\* and makes no call but the Get of the parent: no namespace listing, no get,
\* create, update or delete of a child, no status patch.
C18_NotFoundNoOp ==
  \A p \in Parents :
    (~ces[p].exists /\ lastCycle[p].exit \notin {"none", "fetcherr"}) =>
      /\ lastCycle[p].exit = "notfound"
      /\ ~lastCycle[p].err
      /\ lastCycle[p].requeueAfter = 0
      /\ lastCycle[p].calls = {Call("GetCES", 0, TRUE)}
      /\ lastCycle[p].patches = 0
      /\ children = lastCycle[p].startChildren
      /\ ces[p].status = lastCycle[p].startStatus

\* A cycle ran for a deleted parent whose status listed a provisioned namespace
\* while a resource of the child's name was left in a namespace.
C18_Witness ==
  \E p \in Parents :
    /\ lastCycle[p].exit = "notfound"
    /\ lastCycle[p].startStatus.provisionedNamespaces # <<>>
    /\ \E n \in Namespaces : NowChild(p, n).exists

\* The controller owner of the child is another parent.
ControlledByOther(child, p) ==
  child.exists /\ \E o \in child.ownerReferences : o.controller /\ o.uid # p

\* C20 (as stated): the removal pass leaves in place a child whose controller
\* owner is another parent, and reports a failure for its namespace.
C20_ForeignChildNotRemoved ==
  \A p \in Parents : Completed(p) =>
    \A n \in RemovedAtStart(p) :
      ControlledByOther(StartChild(p, n), p) =>
        /\ NowChild(p, n) = StartChild(p, n)
        /\ n \in FailedNs(lastCycle[p].status)

\* ------------------------------------------------- the watch on its own
\* The cluster at rest: the reconciler does nothing while an event is mapped.
ClusterAtRest ==
  /\ nsLabels = [n \in Namespaces |-> {}]
  /\ children = [n \in Namespaces |-> [name \in ChildNames |-> NoChild]]
  /\ ces = [p \in Parents |->
                [name |-> p, exists |-> FALSE,
                 spec |-> [namespaceSelector |-> [valid |-> TRUE, matchLabels |-> {}],
                           externalSecretName |-> "",
                           externalSecretSpec |-> "s1",
                           externalSecretMetadata |-> [labels |-> "l1", annotations |-> "a1"],
                           refreshInterval |-> <<>>],
                 status |-> EmptyStatus]]
  /\ lastCycle = [p \in Parents |-> NoCycle]
  /\ streak = 0
  /\ envBudget = 0
  /\ failBudget = 0

WatchInit ==
  /\ ClusterAtRest
  /\ watch \in {WatchIdle(items) : items \in Collections}
  /\ conc = ConcIdle(NoChild)

\* The informer delivers a namespace event: namespacePredicate filters it, and
\* the handler starts findObjectsForNamespace on an object of an accepted event.
HandleEvent ==
  /\ watch.phase = "idle"
  /\ \E e \in Events :
       IF namespacePredicate(e)
         THEN \E object \in {e.objectOld, e.objectNew} :
                /\ ~object.nil
                /\ watch' = [watch EXCEPT !.phase = "mapping", !.event = e,
                                          !.accepted = TRUE,
                                          !.namespaceLabels = object.labels.entries]
         ELSE watch' = [watch EXCEPT !.phase = "filtered", !.event = e,
                                     !.accepted = FALSE]
  /\ UNCHANGED <<nsLabels, children, ces, lastCycle, streak, envBudget, failBudget, conc>>

\* findObjectsForNamespace lists one page of parents; the listing may fail.
FindObjectsPage ==
  /\ watch.phase = "mapping"
  /\ \E fails \in BOOLEAN :
       LET step == findObjectsPage(watch.items, watch.continue, watch.requests,
                                   watch.namespaceLabels, fails)
       IN watch' = [watch EXCEPT
                      !.phase = IF step.returned THEN "returned" ELSE "mapping",
                      !.continue = step.continue,
                      !.pages = IF fails THEN watch.pages ELSE watch.pages + 1,
                      !.listErr = fails,
                      !.requests = step.requests,
                      !.result = step.result]
  /\ UNCHANGED <<nsLabels, children, ces, lastCycle, streak, envBudget, failBudget, conc>>

WatchNext == HandleEvent \/ FindObjectsPage

WatchSpec == WatchInit /\ [][WatchNext]_vars

\* The label sets of the two objects of the event at hand.
OldLabelSet == watch.event.objectOld.labels.entries
NewLabelSet == watch.event.objectNew.labels.entries

\* C16: the namespace event filter accepts every create event and every delete
\* event, and accepts an update event if and only if both objects are present
\* and their label sets differ.
C16_NamespacePredicate ==
  watch.phase # "idle" =>
    /\ watch.event.kind \in {"create", "delete"} => watch.accepted
    /\ watch.event.kind = "update" =>
         (watch.accepted <=>
            /\ ~watch.event.objectOld.nil
            /\ ~watch.event.objectNew.nil
            /\ OldLabelSet # NewLabelSet)

\* An update event that changed nothing in the labels of a labelled namespace
\* was rejected.
C16_Witness ==
  /\ watch.phase = "filtered"
  /\ watch.event.kind = "update"
  /\ ~watch.event.objectOld.nil /\ ~watch.event.objectNew.nil
  /\ OldLabelSet = NewLabelSet
  /\ OldLabelSet # {}

\* An update event that changed the labels was accepted.
C16_WitnessAccepted ==
  /\ watch.phase = "mapping"
  /\ watch.event.kind = "update"
  /\ OldLabelSet # NewLabelSet

\* The parents of the collection whose selector matches the labels of the
\* namespace that is mapped.
MatchingParents ==
  {i \in DOMAIN watch.items :
     watch.items[i].namespaceSelector.matchLabels \subseteq watch.namespaceLabels}

AllSelectorsConvert ==
  \A i \in DOMAIN watch.items : watch.items[i].namespaceSelector.valid

\* C17: findObjectsForNamespace, walking the collection page by page until the
\* token is empty, returns one request for each parent whose selector matches
\* the namespace's labels and none for the others when every page lists and
\* every selector converts; when a page listing or a selector conversion fails
\* it returns no request, whatever it gathered from the pages before.
C17_FindObjectsForNamespace ==
  watch.phase = "returned" =>
    IF ~watch.listErr /\ AllSelectorsConvert
      THEN /\ {watch.result[j] : j \in DOMAIN watch.result} = MatchingParents
           /\ Len(watch.result) = Cardinality(MatchingParents)
           /\ watch.pages * PageLimit >= Len(watch.items)
      ELSE watch.result = <<>>

\* The enumeration took more than one page and returned requests for some of
\* the parents but not all.
C17_Witness ==
  /\ watch.phase = "returned"
  /\ watch.pages > 1
  /\ watch.result # <<>>
  /\ Len(watch.result) < Len(watch.items)

\* The listing of a later page failed after requests were gathered from an
\* earlier one.
C17_WitnessListError ==
  /\ watch.phase = "returned"
  /\ watch.listErr
  /\ watch.pages >= 1
  /\ watch.requests # <<>>
  /\ watch.result = <<>>

\* A selector of a later page did not convert after requests were gathered from
\* an earlier one.
C17_WitnessSelectorError ==
  /\ watch.phase = "returned"
  /\ ~watch.listErr
  /\ watch.pages > 1
  /\ watch.requests # <<>>
  /\ watch.result = <<>>

\* ------------------------------------------ two parents in one namespace
ConcInit ==
  /\ ClusterAtRest
  /\ watch = WatchIdle(<<>>)
  /\ conc \in
       {ConcIdle(child) :
          child \in {NoChild,
                     StoredChild(Child("s2", [labels |-> "l2", annotations |-> "a2"], {}),
                                 1, "none"),
                     StoredChild(Child("s2", [labels |-> "l2", annotations |-> "a2"],
                                       {[uid |-> "other", controller |-> FALSE]}),
                                 1, "none"),
                     StoredChild(Child("s1", [labels |-> "l1", annotations |-> "a1"],
                                       {[uid |-> "ces1", controller |-> TRUE]}),
                                 1, "ces1"),
                     StoredChild(Child("s1", [labels |-> "l1", annotations |-> "a1"],
                                       {[uid |-> "ces2", controller |-> TRUE]}),
                                 1, "none")}}

ConcCore == <<nsLabels, children, ces, lastCycle, streak, envBudget, failBudget, watch>>

\* The cycle of parent p reaches the namespace: getExternalSecret, checkForError
\* and the SetControllerReference on the metadata it read (lines 116-122, 145).
ConcGetExternalSecret(p) ==
  /\ conc.pc[p] = "idle"
  /\ conc.cycles[p] < MaxCycles
  /\ LET existingES == getExternalSecret(ConcChildren(conc.child), ConcNamespace,
                                         ConcName, {})
         result == checkForError(existingES.err, existingES)
     IN conc' =
          IF result # ""
            THEN [conc EXCEPT !.existingES[p] = existingES, !.result[p] = result,
                              !.cycles[p] = @ + 1]
          ELSE IF SetControllerReference(p, existingES.ownerReferences).err
            THEN [conc EXCEPT !.existingES[p] = existingES,
                              !.result[p] = errSetCtrlReference,
                              !.cycles[p] = @ + 1]
          ELSE [conc EXCEPT !.existingES[p] = existingES, !.pc[p] = "upsert"]
  /\ UNCHANGED ConcCore

\* The Get of CreateOrUpdate: the stored object, if there is one, replaces the
\* object that resolveExternalSecret built.
ConcCreateOrUpdateGet(p) ==
  /\ conc.pc[p] = "upsert"
  /\ conc' = [conc EXCEPT !.object[p] = conc.child, !.pc[p] = "write"]
  /\ UNCHANGED ConcCore

\* The write of CreateOrUpdate. Create fails when the object exists by now;
\* Update sends the object as it was read, with the template as spec, and fails
\* when the stored object is gone or has another resourceVersion.
ConcCreateOrUpdateWrite(p) ==
  /\ conc.pc[p] = "write"
  /\ LET template == ConcParent(p).spec.externalSecretSpec
         externalSecret ==
           Child(template, ConcParent(p).spec.externalSecretMetadata,
                 SetControllerReference(p, {}).owners)
         object == conc.object[p]
         finished == [conc EXCEPT !.pc[p] = "idle", !.cycles[p] = @ + 1]
     IN conc' =
          IF ~object.exists
            THEN IF conc.child.exists
              THEN [finished EXCEPT !.result[p] = errCreatingOrUpdating]
              ELSE [finished EXCEPT !.result[p] = "",
                                    !.child = StoredChild(externalSecret, 1, p)]
          ELSE IF object.spec = template
            THEN [finished EXCEPT !.result[p] = ""]
          ELSE IF \/ ~conc.child.exists
                  \/ conc.child.resourceVersion # object.resourceVersion
            THEN [finished EXCEPT !.result[p] = errCreatingOrUpdating]
          ELSE [finished EXCEPT
                  !.result[p] = "",
                  !.child = StoredChild([object EXCEPT !.spec = template],
                                        object.resourceVersion + 1, p)]
  /\ UNCHANGED ConcCore

ConcNext ==
  \E p \in ConcParents :
    \/ ConcGetExternalSecret(p)
    \/ ConcCreateOrUpdateGet(p)
    \/ ConcCreateOrUpdateWrite(p)

ConcSpec == ConcInit /\ [][ConcNext]_vars

\* C19 (as stated): whatever the interleaving of the cycles of two parents that
\* give their child the same name in a namespace both match, the child is only
\* written by the parent that is its controller owner: no parent writes the
\* spec of a child whose controller owner is the other parent.
C19_OnlyOwnerWrites ==
  conc.child.exists =>
    \A o \in conc.child.ownerReferences :
      (o.controller /\ o.uid \in ConcParents) => conc.child.writer \in {o.uid, "none"}

====
